---- MODULE Spec2Model ----
(***************************************************************************)
(* A model of the mosaic engine of image-mosaic-generator                  *)
(* (src-tauri/src/lib.rs): the weighting mask, the lazily cached Tile, the *)
(* TileLibrary (construction, matches_config, find_best_tile) and          *)
(* TileLibrary::generate_mosaic; and of the tile cache of the command      *)
(* layer (src-tauri/src/main.rs: AppState and generate_mosaic).            *)
(*                                                                         *)
(* Colours are [f64; 3] in the program.  The model draws them from points  *)
(* with integer coordinates, for which every distance and score below is   *)
(* an integer that f64 represents exactly, so f64 arithmetic and integer   *)
(* arithmetic agree on them.                                               *)
(***************************************************************************)
EXTENDS Integers, Sequences, FiniteSets, TLC

VARIABLES
    pc,              \* position of the operation being modelled
    tiles,           \* TileLibrary.tiles: sequence of Tile records
    src_dir,         \* TileLibrary.src_dir
    tile_size,       \* TileLibrary.tile_size
    sigma_divisor,   \* TileLibrary.sigma_divisor
    mask,            \* TileLibrary.mask: the weights of the GaussianMask
    usage_counts,    \* find_best_tile / generate_mosaic: usage_counts
    penalty_factor,  \* MosaicConfig.penalty_factor, in halves (2 is 1.0)
    target_color,    \* find_best_tile: target_color of the last call
    k,               \* find_best_tile: number of neighbours queried
    nearest,         \* find_best_tile: the neighbours, in the order yielded
    best_idx,        \* find_best_tile: the index returned by the last call
    orig,            \* generate_mosaic: (orig_w, orig_h)
    pad,             \* generate_mosaic: (pad_w, pad_h)
    coords,          \* generate_mosaic: the cells (x, y)
    matches,         \* generate_mosaic: the tile chosen for each scored cell
    painted,         \* generate_mosaic: number of cells overlaid on the canvas
    result,          \* the last operation's return value
    fs,              \* the directory tree TileLibrary::new walks
    loads,           \* per tile: successful loads of the source file (history)
    query,           \* arguments of the last matches_config call
    overflow_checks, \* the build panics on integer overflow (debug) or wraps
    pattern,         \* generate_mosaic: the content of the target image
    err_path,        \* the tile path an Image error carries (0: none)
    tile_img,        \* the tile and image of the last Ok of Tile::get_image
    state_tiles,     \* main.rs AppState.tiles
    cache_params,    \* main.rs AppState.cache_params: <<>> is None, <<key>> Some
    reqs             \* main.rs: the running invocations of generate_mosaic

vars == <<pc, tiles, src_dir, tile_size, sigma_divisor, mask, usage_counts,
          penalty_factor, target_color, k, nearest, best_idx, orig, pad,
          coords, matches, painted, result, fs, loads, query, overflow_checks,
          pattern, err_path, tile_img, state_tiles, cache_params, reqs>>

cmdVars == <<state_tiles, cache_params, reqs>>
libVars == <<tiles, src_dir, tile_size, sigma_divisor, mask>>
findVars == <<usage_counts, penalty_factor, target_color, k, nearest, best_idx>>
genVars == <<orig, pad, coords, matches, painted, pattern, err_path, tile_img>>

\* ---------------------------------------------------------------- constants
PENALTY_MULTIPLIER == 50
KD_TREE_K_MIN == 10
KD_TREE_K_MAX == 100
KD_TREE_K_DIVISOR == 10
SUPPORTED_EXTENSIONS == {"jpg", "jpeg", "png"}
\* u32 values are kept as two 16-bit limbs <<hi, lo>>: one past the largest limb
LIMB == 65536

\* ------------------------------------------------------------------- bounds
\* SpecFind: tiles in the library, tiles sharing the first colour, largest
\* usage count and largest penalty_factor (in halves) of a call
MaxTiles == 11
MaxDup == 2
MaxUsage == 2
MaxPenalty == 2
\* SpecK: the library has m, 10 m or 100 m tiles, m up to
MaxMult == 50
\* SpecPad: target dimensions within MaxEdge of 0 and of u32::MAX, tile sizes
MaxEdge == 7
MaxPadTile == 4
\* SpecLib: entries of the directory tree, largest tile size
MaxFiles == 2
MaxLibSize == 2
\* SpecCache: invocations of the command running at once, largest asset_size
MaxRequests == 2
MaxAssetSize == 2
\* SpecMosaic: tiles of the library, tile size, target width and height
MaxMosaicTiles == 2
MaxCell == 2
MaxWidth == 3
MaxHeight == 3

\* ------------------------------------------------------------------ helpers
Min2(a, b) == IF a < b THEN a ELSE b
Max2(a, b) == IF a > b THEN a ELSE b

\* usize::max / usize::min chain of find_best_tile
KForUnlimited(len) ==
    Max2(Min2(Max2(len \div KD_TREE_K_DIVISOR, KD_TREE_K_MIN), KD_TREE_K_MAX), 1)
KFor(len) ==
    Max2(Min2(Min2(Max2(len \div KD_TREE_K_DIVISOR, KD_TREE_K_MIN), KD_TREE_K_MAX), len), 1)

\* SquaredEuclidean distance between two colour points
SquaredEuclidean(a, b) ==
    (a[1] - b[1]) * (a[1] - b[1]) + (a[2] - b[2]) * (a[2] - b[2])
        + (a[3] - b[3]) * (a[3] - b[3])

\* f64 values of sigma_divisor: <<"num", n>> for the number n, <<"nan">> for NaN
F64(n) == <<"num", n>>
NaN == <<"nan">>
\* a == b on f64: NaN equals nothing, itself included
F64Eq(a, b) == a[1] = "num" /\ b[1] = "num" /\ a[2] = b[2]
\* a > 0.0 on f64: false for NaN
F64Positive(a) == a[1] = "num" /\ a[2] > 0

\* GaussianMask::new: size * size weights, rows outermost.  A Gaussian weight
\* is kept as the pixel <<"exp", x, y>> it is computed for, a uniform weight
\* as <<"one">>.
GaussianMask(size, sigma) ==
    [i \in 1..(size * size) |->
        IF F64Positive(sigma)
        THEN <<"exp", (i - 1) % size, (i - 1) \div size>>
        ELSE <<"one">>]

\* avg_rgb_with_mask reads weights[i] for each of the image's pixels: it
\* panics when the image has more pixels than the mask has weights
AvgRgbPanics(pixels, weights) == pixels > Len(weights)

\* Tile::new: the image is not loaded yet.  image_cache is 0 for None and
\* j > 0 for Some(the image made by the j-th successful load of the file).
NewTile(path, color, size) ==
    [path |-> path, color |-> color, image_cache |-> 0, tile_size |-> size]

\* history of the loads of each tile's file: the successful ones, and
\* whether one failed
NoLoads(n) == [i \in 1..n |-> [ok |-> 0, failed |-> FALSE]]

\* --------------------------------------------------------- find_best_tile
\* Tile indices: index i of the model is index i - 1 of the program.

\* kiddo's distance of tile i's colour point to the query point
Dist(ts, t, i) == SquaredEuclidean(t, ts[i].color)

\* every order of the elements of a finite set
RECURSIVE Perms(_)
Perms(S) ==
    IF S = {} THEN {<<>>}
    ELSE UNION {{<<x>> \o p : p \in Perms(S \ {x})} : x \in S}

\* every order of S that is sorted nearest first; tiles at the same distance
\* come in an order the index defines
RECURSIVE ByDistance(_, _, _)
ByDistance(ts, t, S) ==
    IF S = {} THEN {<<>>}
    ELSE LET near == {i \in S : \A j \in S : Dist(ts, t, i) <= Dist(ts, t, j)}
         IN  {p \o r : p \in Perms(near), r \in ByDistance(ts, t, S \ near)}

\* ImmutableKdTree::nearest_n::<SquaredEuclidean>(target, k): the sequences the
\* query may yield: kk distinct tiles, none farther than a tile left out,
\* sorted nearest first (all of them when there are fewer than kk).  Which of several tiles at the same distance is
\* kept, and their relative order, is the index's choice.
NearestN(ts, t, kk) ==
    LET all == 1..Len(ts)
        kn == Min2(kk, Len(ts))
        within(d) == {i \in all : Dist(ts, t, i) <= d}
        dk == CHOOSE d \in {Dist(ts, t, i) : i \in all} :
                  /\ Cardinality(within(d)) >= kn
                  /\ \A i \in all : Dist(ts, t, i) < d
                         => Cardinality(within(Dist(ts, t, i))) < kn
        strict == {i \in all : Dist(ts, t, i) < dk}
        tie == {i \in all : Dist(ts, t, i) = dk}
        m == kn - Cardinality(strict)
    IN  UNION {ByDistance(ts, t, strict \cup T) :
                  T \in {T \in SUBSET tie : Cardinality(T) = m}}

\* usage_counts[idx] as f64 * penalty * PENALTY_MULTIPLIER; penalty counts
\* halves, so the product is halved (it is even)
PenaltyScoreNoUsage(usage, idx, penalty) == (penalty * PENALTY_MULTIPLIER) \div 2
PenaltyScore(usage, idx, penalty) == (usage[idx] * penalty * PENALTY_MULTIPLIER) \div 2

\* total_score < min_score; min_score is <<>> while it is still f64::MAX
ScoreLessOrEqual(total_score, min_score) ==
    IF min_score = <<>> THEN TRUE ELSE total_score <= min_score[1]
ScoreLess(total_score, min_score) ==
    IF min_score = <<>> THEN TRUE ELSE total_score < min_score[1]

\* color_dist + penalty_score of a neighbour
TotalScore(ts, t, usage, penalty, idx) ==
    Dist(ts, t, idx) + PenaltyScore(usage, idx, penalty)

\* the loop over the neighbours, from neighbour j on
RECURSIVE ScanNeighbours(_, _, _, _, _, _, _, _)
ScanNeighbours(ts, t, usage, penalty, nb, j, best, min_score) ==
    IF j > Len(nb) THEN best
    ELSE LET idx == nb[j]
             total_score == TotalScore(ts, t, usage, penalty, idx)
         IN  IF ScoreLess(total_score, min_score)
             THEN ScanNeighbours(ts, t, usage, penalty, nb, j + 1, idx, <<total_score>>)
             ELSE ScanNeighbours(ts, t, usage, penalty, nb, j + 1, best, min_score)

\* find_best_tile for the neighbours nb the query yielded; best_idx starts at
\* the program's index 0
FindBestTile(ts, t, usage, penalty, nb) ==
    ScanNeighbours(ts, t, usage, penalty, nb, 1, 1, <<>>)

\* ------------------------------------------------- values of idle variables
NoQuery == <<>>

IdleFind ==
    /\ usage_counts = <<>> /\ penalty_factor = 0 /\ target_color = <<0, 0, 0>>
    /\ k = 0 /\ nearest = <<>> /\ best_idx = 0

IdleGen ==
    /\ orig = <<<<0, 0>>, <<0, 0>>>> /\ pad = <<<<0, 0>>, <<0, 0>>>>
    /\ coords = <<>> /\ matches = <<>> /\ painted = 0
    /\ pattern = "none" /\ err_path = 0 /\ tile_img = <<0, 0>>

IdleFs == fs = <<>> /\ query = NoQuery /\ overflow_checks = TRUE
IdleCmd == state_tiles = <<>> /\ cache_params = <<>> /\ reqs = <<>>

\* ------------------------------------------- SpecFind: find_best_tile alone
\* penalty_factor is drawn from the halves 0, 0.5, 1.0, ..., which f64
\* represents exactly, as it does every product and sum formed from them.
\* The libraries of the calls: n tiles on one colour axis, the first dup of
\* them of one colour, the others one step apart.
FixtureColor(i, dup) == <<Max2(0, i - dup), 0, 0>>

FixtureTiles(n, dup, size) ==
    [i \in 1..n |-> NewTile(i, FixtureColor(i, dup), size)]

\* Target colours of the calls: the colour of the first tiles and the colour
\* in the middle of the other tiles' colours.
FixtureTargets(n, dup) ==
    {FixtureColor(1, dup), <<(n - dup + 1) \div 2, 0, 0>>}

\* Usage tables of the calls: every tile at a base count, zero or the
\* largest, but for the first tile and one more tile, the second or the last.
FixtureUsage(n) ==
    {[i \in 1..n |-> IF i = 1 THEN u1 ELSE IF i = a THEN ua ELSE base] :
        base \in {0, MaxUsage}, u1 \in 0..MaxUsage, ua \in 0..MaxUsage, a \in {2, n}}

InitFind ==
    /\ pc = "find_call"
    /\ \E n \in 1..MaxTiles : \E dup \in 1..Min2(MaxDup, n) :
          /\ tiles = FixtureTiles(n, dup, 1)
          /\ usage_counts \in FixtureUsage(n)
          /\ target_color \in FixtureTargets(n, dup)
          /\ loads = NoLoads(n)
    /\ penalty_factor \in 0..MaxPenalty
    /\ src_dir = "/tmp/tiles" /\ tile_size = 1 /\ sigma_divisor = F64(4)
    /\ mask = GaussianMask(1, F64(4))
    /\ k = 0 /\ nearest = <<>> /\ best_idx = 0
    /\ IdleCmd /\ IdleGen /\ IdleFs
    /\ result = "none"

\* one call of find_best_tile(target_color, &usage_counts, penalty)
FindBestTileCall ==
    /\ pc = "find_call"
    /\ k' = KFor(Len(tiles))
    /\ IF k' = 0
       THEN \* NonZeroUsize::new(0).unwrap()
            /\ pc' = "panic"
            /\ UNCHANGED <<nearest, best_idx>>
       ELSE /\ \E nb \in NearestN(tiles, target_color, k') :
                  /\ nearest' = nb
                  /\ best_idx' = FindBestTile(tiles, target_color, usage_counts,
                                              penalty_factor, nb)
            /\ pc' = "find_done"
    /\ UNCHANGED cmdVars
    /\ UNCHANGED <<libVars, usage_counts, penalty_factor, target_color, genVars,
                   result, fs, loads, query, overflow_checks>>

NextFind == FindBestTileCall

SpecFind == InitFind /\ [][NextFind]_vars

\* the candidates of the last call
Candidates == {nearest[j] : j \in 1..Len(nearest)}

\* C1, as claimed: of two tiles of one colour, with penalty_factor > 0, the
\* call never returns the one with the higher usage count.
C1_AsClaimed ==
    pc = "find_done" =>
        \A A \in 1..Len(tiles) : \A B \in 1..Len(tiles) :
            (/\ A # B
             /\ tiles[A].color = tiles[B].color
             /\ penalty_factor > 0
             /\ usage_counts[A] > usage_counts[B])
            => best_idx # A

\* C1, amended: of two tiles of one colour that are both among the k
\* candidates the query yields (as they always are in a library of at most
\* KD_TREE_K_MIN tiles, where k is the tile count), with penalty_factor > 0,
\* the call never returns the one with the higher usage count.
C1_LowerUsagePreferred ==
    pc = "find_done" =>
        \A A \in 1..Len(tiles) : \A B \in 1..Len(tiles) :
            (/\ A # B
             /\ tiles[A].color = tiles[B].color
             /\ penalty_factor > 0
             /\ usage_counts[A] > usage_counts[B]
             /\ (Len(tiles) <= KD_TREE_K_MIN \/ {A, B} \subseteq Candidates))
            => (best_idx # A /\ (Len(tiles) <= KD_TREE_K_MIN => B \in Candidates))

\* a call over more than KD_TREE_K_MIN tiles returned the less used of two
\* candidates of the target's own colour
C1_Witness ==
    /\ pc = "find_done"
    /\ Len(tiles) > KD_TREE_K_MIN
    /\ penalty_factor > 0
    /\ \E A \in Candidates : \E B \in Candidates :
          /\ A # B
          /\ tiles[A].color = tiles[B].color
          /\ tiles[A].color = target_color
          /\ usage_counts[A] > usage_counts[B]
          /\ best_idx = B

\* the score of tile i in the last call
ClaimedScore(i) ==
    SquaredEuclidean(target_color, tiles[i].color)
        + (usage_counts[i] * penalty_factor * 50) \div 2

\* C2: find_best_tile returns one of the k candidates the query yielded: the
\* first in yield order whose score squared_distance + usage_count *
\* penalty_factor * 50 is minimal among them; with every usage count zero
\* that is a candidate at the minimal squared distance.
C2_FirstMinimalCandidate ==
    pc = "find_done" =>
        /\ Len(nearest) = k
        /\ \E j \in 1..Len(nearest) :
              /\ nearest[j] = best_idx
              /\ \A i \in 1..Len(nearest) :
                    ClaimedScore(nearest[i]) >= ClaimedScore(best_idx)
              /\ \A i \in 1..(j - 1) :
                    ClaimedScore(nearest[i]) > ClaimedScore(best_idx)
        /\ (\A t \in 1..Len(tiles) : usage_counts[t] = 0)
              => \A c \in Candidates :
                    SquaredEuclidean(target_color, tiles[c].color)
                        >= SquaredEuclidean(target_color, tiles[best_idx].color)

\* a call in which a later candidate ties the returned one on the score, the
\* returned one being used more and nearer
C2_Witness ==
    /\ pc = "find_done"
    /\ \E j \in 1..Len(nearest) : \E i \in 1..Len(nearest) :
          /\ nearest[j] = best_idx
          /\ j < i
          /\ ClaimedScore(nearest[i]) = ClaimedScore(best_idx)
          /\ usage_counts[best_idx] > usage_counts[nearest[i]]

\* ------------------------------- SpecK: the number of neighbours queried
\* the sizes of the libraries
TileCounts == {m * s : m \in 1..MaxMult, s \in {1, 10, 100}}

InitK ==
    /\ pc = "k_call"
    /\ \E n \in TileCounts :
          /\ tiles = [i \in 1..n |-> NewTile(i, <<0, 0, 0>>, 1)]
          /\ loads = NoLoads(n)
    /\ src_dir = "/tmp/tiles" /\ tile_size = 1 /\ sigma_divisor = F64(4)
    /\ mask = GaussianMask(1, F64(4))
    /\ IdleCmd /\ IdleFind /\ IdleGen /\ IdleFs
    /\ result = "none"

\* find_best_tile up to NonZeroUsize::new(k).unwrap()
QueryK ==
    /\ pc = "k_call"
    /\ k' = KFor(Len(tiles))
    /\ pc' = IF k' = 0 THEN "panic" ELSE "k_done"
    /\ UNCHANGED cmdVars
    /\ UNCHANGED <<libVars, usage_counts, penalty_factor, target_color, nearest,
                   best_idx, genVars, result, fs, loads, query, overflow_checks>>

NextK == QueryK

SpecK == InitK /\ [][NextK]_vars

\* C4: with tile_count >= 1 tiles, k is clamp(tile_count / 10, 10, 100)
\* limited to at most tile_count, so 1 <= k <= tile_count and the unwrap of
\* NonZeroUsize::new(k) does not panic; 4 tiles give 4, 50 give 10, 500 give
\* 50 and 5000 give 100.
C4_NeighbourCount ==
    LET n == Len(tiles)
        c == n \div 10
        clamped == IF c < 10 THEN 10 ELSE IF c > 100 THEN 100 ELSE c
    IN  /\ pc # "panic"
        /\ pc = "k_done" =>
              /\ k = (IF clamped > n THEN n ELSE clamped)
              /\ 1 <= k /\ k <= n
              /\ (n = 4 => k = 4)
              /\ (n = 50 => k = 10)
              /\ (n = 500 => k = 50)
              /\ (n = 5000 => k = 100)

\* k was computed for a library of 5000 tiles, and for one of 4
C4_Witness == pc = "k_done" /\ Len(tiles) = 5000 /\ k = 100


\* ------------------------------------------------------------ u32 arithmetic
\* A u32 is <<hi, lo>>, standing for hi * LIMB + lo.
U32(n) == <<n \div LIMB, n % LIMB>>
U32_MAX == <<LIMB - 1, LIMB - 1>>

\* a + b in u32: the wrapped value and whether it overflowed
AddU32(a, b) ==
    LET lo == a[2] + b[2]
        hi == a[1] + b[1] + (lo \div LIMB)
    IN  [value |-> <<hi % LIMB, lo % LIMB>>, overflow |-> hi >= LIMB]

\* a - b in u32: the wrapped value and whether it overflowed
SubU32(a, b) ==
    LET lo == a[2] - b[2]
        hi == a[1] - b[1] - (IF lo < 0 THEN 1 ELSE 0)
    IN  [value |-> <<hi % LIMB, lo % LIMB>>, overflow |-> hi < 0]

\* a / d and a % d in u32, for a divisor 0 < d < 2^15
DivU32(a, d) == <<a[1] \div d, (((a[1] % d) * LIMB) + a[2]) \div d>>
RemU32(a, d) == (((a[1] % d) * LIMB) + a[2]) % d

\* a * d in u32, for a factor d < 2^15
MulU32(a, d) ==
    LET lo == a[2] * d
        hi == a[1] * d + (lo \div LIMB)
    IN  [value |-> <<hi % LIMB, lo % LIMB>>, overflow |-> hi >= LIMB]

LeqU32(a, b) == a[1] < b[1] \/ (a[1] = b[1] /\ a[2] <= b[2])

\* ((orig + tile_size - 1) / tile_size) * tile_size, evaluated left to right
\* in u32: the value with wrapping arithmetic, and whether a step overflowed
PadDimUnrounded(o, size) == [value |-> o, overflow |-> FALSE]
PadDim(o, size) ==
    LET sum == AddU32(o, U32(size))
        less == SubU32(sum.value, U32(1))
        prod == MulU32(DivU32(less.value, size), size)
    IN  [value |-> prod.value,
         overflow |-> sum.overflow \/ less.overflow \/ prod.overflow]

\* ---------------------------------------- generate_mosaic: padded dimensions
\* pad_w and pad_h.  An overflowing step panics in a build with overflow
\* checks and wraps in a build without.
ComputePad ==
    /\ pc = "pad"
    /\ LET w == PadDim(orig[1], tile_size)
           h == PadDim(orig[2], tile_size)
       IN  IF overflow_checks /\ (w.overflow \/ h.overflow)
           THEN /\ pc' = "panic"
                /\ result' = "panic"
                /\ UNCHANGED pad
           ELSE /\ pc' = "coords"
                /\ pad' = <<w.value, h.value>>
                /\ UNCHANGED result
    /\ UNCHANGED cmdVars
    /\ UNCHANGED <<libVars, findVars, orig, coords, matches, painted, fs, loads,
                   query, overflow_checks, pattern, err_path, tile_img>>

\* ----------------------------------------- SpecPad: the padded dimensions
\* dimensions near both ends of u32
EdgeDims ==
    {U32(e) : e \in 0..MaxEdge} \cup {SubU32(U32_MAX, U32(e)).value : e \in 0..MaxEdge}

InitPad ==
    /\ pc = "pad"
    /\ tile_size \in 1..MaxPadTile
    /\ orig \in EdgeDims \X EdgeDims
    /\ overflow_checks \in BOOLEAN
    /\ tiles = <<NewTile(1, <<0, 0, 0>>, tile_size)>>
    /\ loads = NoLoads(1)
    /\ src_dir = "/tmp/tiles" /\ sigma_divisor = F64(4)
    /\ mask = GaussianMask(tile_size, F64(4))
    /\ IdleCmd /\ IdleFind
    /\ pad = <<U32(0), U32(0)>> /\ coords = <<>> /\ matches = <<>> /\ painted = 0
    /\ pattern = "none" /\ err_path = 0 /\ tile_img = <<0, 0>>
    /\ fs = <<>> /\ query = NoQuery
    /\ result = "none"

NextPad == ComputePad

SpecPad == InitPad /\ [][NextPad]_vars

\* C5, as claimed: for every tile_size > 0 and every u32 width and height no
\* step of the computation overflows, and each padded dimension is a multiple
\* of tile_size, at least the original and less than tile_size above it.
C5_AsClaimed ==
    pc # "pad" =>
        /\ pc # "panic"
        /\ \A d \in 1..2 :
              /\ RemU32(pad[d], tile_size) = 0
              /\ LeqU32(orig[d], pad[d])
              /\ SubU32(pad[d], orig[d]).value[1] = 0
              /\ SubU32(pad[d], orig[d]).value[2] < tile_size

\* ------------------------------------------------------ TileLibrary::new
\* The directory tree is the sequence of entries WalkDir yields.  An entry is
\* a regular file, a directory, a symbolic link (not followed) or a walk
\* error; a file has the extension Path::extension gives (<<>> for none),
\* decodes or not, and the colour its resized image averages to.
Extensions == {<<"jpg">>, <<"JPEG">>, <<"png">>, <<"gif">>, <<>>}

EntryKinds ==
    {[kind |-> "file", ext |-> e, decodes |-> d] : e \in Extensions, d \in BOOLEAN}
        \cup {[kind |-> kd, ext |-> <<>>, decodes |-> FALSE] :
                 kd \in {"dir", "symlink", "error"}}

\* str::to_lowercase on the extensions of the model
ToLowerNone(e) == e
ToLower(e) ==
    CASE e = "JPEG" -> "jpeg"
      [] e = "JPG" -> "jpg"
      [] e = "PNG" -> "png"
      [] e = "GIF" -> "gif"
      [] OTHER -> e

\* the filter_map closure of load_library: the entry yields a tile
YieldsTile(entry) ==
    /\ entry.kind = "file"
    /\ entry.ext # <<>>
    /\ ToLower(entry.ext[1]) \in SUPPORTED_EXTENSIONS
    /\ entry.decodes

\* load_library: the tiles of the entries from position i on, in walk order
\* (collect keeps the order of the entries)
RECURSIVE LoadLibrary(_, _, _)
LoadLibrary(tree, size, i) ==
    IF i > Len(tree) THEN <<>>
    ELSE IF YieldsTile(tree[i])
         THEN <<NewTile(i, <<i, 0, 0>>, size)>> \o LoadLibrary(tree, size, i + 1)
         ELSE LoadLibrary(tree, size, i + 1)

Dirs == {"/tmp/tiles", "/tmp/tiles/", "/tmp/other"}
Sigmas == {F64(4), F64(8), NaN}

\* Path::components of the directories of the model
Components(dir) ==
    CASE dir = "/tmp/tiles" -> <<"/", "tmp", "tiles">>
      [] dir = "/tmp/tiles/" -> <<"/", "tmp", "tiles">>
      [] dir = "/tmp/other" -> <<"/", "tmp", "other">>
      [] OTHER -> <<dir>>

\* PathBuf == &Path compares the components
PathEq(a, b) == Components(a) = Components(b)

\* TileLibrary::new(dir, size, sigma_divisor)
New(dir, size, sigma) ==
    /\ pc = "new_call"
    /\ LET loaded == LoadLibrary(fs, size, 1)
       IN  IF loaded = <<>>
           THEN /\ result' = "Config"
                /\ pc' = "failed"
                /\ UNCHANGED <<libVars, loads>>
           ELSE /\ result' = "Ok"
                /\ pc' = "ready"
                /\ tiles' = loaded
                /\ src_dir' = dir
                /\ tile_size' = size
                /\ sigma_divisor' = sigma
                /\ mask' = GaussianMask(size, sigma)
                /\ loads' = NoLoads(Len(loaded))
    /\ UNCHANGED cmdVars
    /\ UNCHANGED <<findVars, genVars, fs, query, overflow_checks>>

\* self.src_dir == dir && self.tile_size == size && self.sigma_divisor == sigma_divisor
SameConfigNoSigma(dir, size, sigma) ==
    PathEq(src_dir, dir) /\ tile_size = size
SameConfig(dir, size, sigma) ==
    PathEq(src_dir, dir) /\ tile_size = size /\ F64Eq(sigma_divisor, sigma)

\* TileLibrary::matches_config(dir, size, sigma_divisor)
MatchesConfig(dir, size, sigma) ==
    /\ pc = "ready"
    /\ query' = <<dir, size, sigma>>
    /\ result' = IF SameConfig(dir, size, sigma) THEN "true" ELSE "false"
    /\ UNCHANGED cmdVars
    /\ UNCHANGED <<pc, libVars, findVars, genVars, fs, loads, overflow_checks>>

\* ----------------------------------------------- SpecLib: construction
InitLib ==
    /\ pc = "new_call"
    /\ \E n \in 0..MaxFiles : fs \in [1..n -> EntryKinds]
    /\ tiles = <<>> /\ src_dir = "" /\ tile_size = 0 /\ sigma_divisor = F64(0)
    /\ mask = <<>> /\ loads = <<>>
    /\ IdleCmd /\ IdleFind /\ IdleGen
    /\ query = NoQuery /\ overflow_checks = TRUE
    /\ result = "none"

NextLib ==
    \E dir \in Dirs \ {"/tmp/tiles/"} : \E size \in 1..MaxLibSize :
       \E sigma \in Sigmas : New(dir, size, sigma)

SpecLib == InitLib /\ [][NextLib]_vars

\* the entries of the tree that are regular files with a supported
\* extension, in any case, and decode
SupportedFiles ==
    {i \in 1..Len(fs) :
        /\ fs[i].kind = "file"
        /\ fs[i].ext \in {<<"jpg">>, <<"JPG">>, <<"jpeg">>, <<"JPEG">>, <<"png">>, <<"PNG">>}
        /\ fs[i].decodes}

\* C6: TileLibrary::new yields a library whose tiles are exactly the regular
\* files with extension jpg, jpeg or png (in any case) that decode, one tile
\* per file, whatever other entries the tree has; it returns a Config error
\* exactly when there is no such file, and never a library without tiles.
C6_ExactlySupportedFiles ==
    /\ pc = "failed" => (result = "Config" /\ SupportedFiles = {} /\ tiles = <<>>)
    /\ pc = "ready" =>
          /\ SupportedFiles # {}
          /\ Len(tiles) = Cardinality(SupportedFiles)
          /\ {tiles[t].path : t \in 1..Len(tiles)} = SupportedFiles
          /\ Len(tiles) >= 1

\* a library of one tile was built from a tree holding an upper-case JPEG
\* and an entry that yields no tile
C6_Witness ==
    /\ pc = "ready"
    /\ Len(tiles) = 1
    /\ Len(fs) = 2
    /\ fs[tiles[1].path].ext = <<"JPEG">>

\* ------------------------------------------------ SpecConfig: matches_config
\* a library as new(dir, size, sigma) builds it over a tree of one image
InitConfig ==
    /\ pc = "ready"
    /\ fs = <<[kind |-> "file", ext |-> <<"png">>, decodes |-> TRUE]>>
    /\ \E dir \in Dirs \ {"/tmp/tiles/"} : \E size \in 1..MaxLibSize :
          \E sigma \in Sigmas :
             /\ tiles = LoadLibrary(fs, size, 1)
             /\ src_dir = dir
             /\ tile_size = size
             /\ sigma_divisor = sigma
             /\ mask = GaussianMask(size, sigma)
    /\ loads = NoLoads(1)
    /\ IdleCmd /\ IdleFind /\ IdleGen
    /\ query = NoQuery /\ overflow_checks = TRUE
    /\ result = "Ok"

NextConfig ==
    \E dir \in Dirs : \E size \in 1..MaxLibSize : \E sigma \in Sigmas :
       MatchesConfig(dir, size, sigma)

SpecConfig == InitConfig /\ [][NextConfig]_vars

\* C9: matches_config(dir, size, sigma_divisor) is true if and only if dir
\* equals the library's source directory (as paths), size its tile_size and
\* sigma_divisor its stored sigma_divisor (as f64 values); a difference in
\* one field alone gives false; the call changes no library state.
C9_MatchesConfigIff ==
    /\ [](query # NoQuery =>
            /\ (result = "true") <=>
                  (/\ Components(query[1]) = Components(src_dir)
                   /\ query[2] = tile_size
                   /\ query[3] # NaN /\ query[3] = sigma_divisor)
            /\ result \in {"true", "false"})
    /\ [][query' # query => libVars' = libVars /\ loads' = loads]_vars

\* a query that differs from the library in sigma_divisor alone (8.0 for
\* 4.0) was answered false
C9_Witness ==
    /\ query # NoQuery
    /\ Components(query[1]) = Components(src_dir)
    /\ query[2] = tile_size
    /\ sigma_divisor = F64(4) /\ query[3] = F64(8)
    /\ result = "false"

\* --------------------------------------------------------- Tile::get_image
\* what a successful load leaves in the cache slot
CacheDropped(img) == 0
CacheStored(img) == img

\* the Image error of a failed load: "Failed to load tile {path}: ..."
TileErrorNoPath(path) == [result |-> "Image:tile", err_path |-> 0]
TileError(path) == [result |-> "Image:tile", err_path |-> path]

\* Tile::get_image on tile t; decodes says whether the file loads now.  The
\* tiles and the history after the call, the image returned (0 with an Err)
GetImage(ts, hist, t, decodes) ==
    IF ts[t].image_cache # 0
    THEN [tiles |-> ts, loads |-> hist, image |-> ts[t].image_cache]
    ELSE IF ~decodes
    THEN [tiles |-> ts, loads |-> [hist EXCEPT ![t].failed = TRUE], image |-> 0]
    ELSE LET resized == hist[t].ok + 1
         IN  [tiles |-> [ts EXCEPT ![t].image_cache = CacheStored(resized)],
              loads |-> [hist EXCEPT ![t].ok = resized],
              image |-> resized]

\* ---------------------------------------------------------- generate_mosaic
ToInt(a) == a[1] * LIMB + a[2]

\* (0..n).step_by(step)
StepBy(n, step) == [i \in 1..((n + step - 1) \div step) |-> (i - 1) * step]

\* the cells (x, y): rows outermost
Coords(pad_w, pad_h, size) ==
    LET xs == StepBy(pad_w, size)
        ys == StepBy(pad_h, size)
    IN  [i \in 1..(Len(xs) * Len(ys)) |->
            <<xs[((i - 1) % Len(xs)) + 1], ys[((i - 1) \div Len(xs)) + 1]>>]

\* usage_counts[best_idx] += 1
BumpFirst(usage, idx) == [usage EXCEPT ![1] = @ + 1]
BumpUsage(usage, idx) == [usage EXCEPT ![idx] = @ + 1]

\* The content of the target image, as the weighted average colour of the
\* region of each cell: one colour throughout, or two colours alternating by
\* column of cells.
Patterns == {"plain", "columns"}

RegionColor(pat, x, y, size) ==
    IF pat = "columns" /\ (x \div size) % 2 = 1 THEN <<1, 0, 0>> ELSE <<0, 0, 0>>

\* load_image_with_orientation(target_path): it fails, or gives an image
LoadTarget ==
    /\ pc = "ready"
    /\ penalty_factor' \in {0, MaxPenalty}
    /\ \/ /\ result' = "Image:target"
          /\ pc' = "returned"
          /\ UNCHANGED <<orig, pattern>>
       \/ /\ \E w \in 0..MaxWidth : \E h \in 0..MaxHeight :
                orig' = <<U32(w), U32(h)>>
          /\ pattern' \in Patterns
          /\ pc' = "pad"
          /\ UNCHANGED result
    /\ UNCHANGED cmdVars
    /\ UNCHANGED <<libVars, usage_counts, target_color, k, nearest, best_idx,
                   pad, coords, matches, painted, err_path, tile_img, fs,
                   loads, query, overflow_checks>>

\* the target is resized to the padded size unless it has it; coords and
\* usage_counts are set up
EnumerateCoords ==
    /\ pc = "coords"
    /\ coords' = Coords(ToInt(pad[1]), ToInt(pad[2]), tile_size)
    /\ usage_counts' = [t \in 1..Len(tiles) |-> 0]
    /\ matches' = <<>>
    /\ pc' = IF coords' = <<>> THEN "encode" ELSE "select"
    /\ UNCHANGED cmdVars
    /\ UNCHANGED <<libVars, penalty_factor, target_color, k, nearest, best_idx,
                   orig, pad, painted, pattern, err_path, tile_img, result, fs,
                   loads, query, overflow_checks>>

\* the closure of the selection pass, for the next cell
SelectCell ==
    /\ pc = "select"
    /\ LET cell == coords[Len(matches) + 1]
           in_view == /\ cell[1] + tile_size <= ToInt(pad[1])
                      /\ cell[2] + tile_size <= ToInt(pad[2])
       IN  IF ~in_view \/ AvgRgbPanics(tile_size * tile_size, mask)
                \/ KFor(Len(tiles)) = 0
           THEN \* target.view, weights[i] or the unwrap panics
                /\ pc' = "panic"
                /\ result' = "panic"
                /\ UNCHANGED <<usage_counts, target_color, k, nearest, best_idx,
                               matches>>
           ELSE /\ target_color' = RegionColor(pattern, cell[1], cell[2], tile_size)
                /\ k' = KFor(Len(tiles))
                /\ \E nb \in NearestN(tiles, target_color', k') :
                      /\ nearest' = nb
                      /\ best_idx' = FindBestTile(tiles, target_color',
                                                  usage_counts, penalty_factor, nb)
                /\ usage_counts' = BumpUsage(usage_counts, best_idx')
                /\ matches' = Append(matches, best_idx')
                /\ pc' = IF Len(matches') = Len(coords) THEN "composite" ELSE "select"
                /\ UNCHANGED result
    /\ UNCHANGED cmdVars
    /\ UNCHANGED <<libVars, penalty_factor, orig, pad, coords, painted, pattern,
                   err_path, tile_img, fs, loads, query, overflow_checks>>

\* one turn of the compositing loop: get_image of the cell's tile, then the
\* overlay; an Err of get_image is returned
CompositeCell ==
    /\ pc = "composite"
    /\ LET t == matches[painted + 1]
       IN  \E decodes \in BOOLEAN :
              LET got == GetImage(tiles, loads, t, decodes)
              IN  /\ tiles' = got.tiles
                  /\ loads' = got.loads
                  /\ IF got.image = 0
                     THEN /\ result' = TileError(tiles[t].path).result
                          /\ err_path' = TileError(tiles[t].path).err_path
                          /\ pc' = "returned"
                          /\ UNCHANGED <<painted, tile_img>>
                     ELSE /\ tile_img' = <<t, got.image>>
                          /\ painted' = painted + 1
                          /\ pc' = IF painted' = Len(coords) THEN "encode" ELSE "composite"
                          /\ UNCHANGED <<result, err_path>>
    /\ UNCHANGED cmdVars
    /\ UNCHANGED <<src_dir, tile_size, sigma_divisor, mask, findVars, orig, pad,
                   coords, matches, pattern, fs, query, overflow_checks>>

\* crop to the original size and encode as PNG: an Image error, or the
\* data URI
Encode ==
    /\ pc = "encode"
    /\ result' \in {"Image:encode", "Ok"}
    /\ pc' = "returned"
    /\ UNCHANGED cmdVars
    /\ UNCHANGED <<libVars, findVars, genVars, fs, loads, query, overflow_checks>>

\* generate_mosaic has returned: its locals are gone
Return ==
    /\ pc = "returned"
    /\ pc' = "ready"
    /\ usage_counts' = <<>> /\ penalty_factor' = 0 /\ target_color' = <<0, 0, 0>>
    /\ k' = 0 /\ nearest' = <<>> /\ best_idx' = 0
    /\ orig' = <<U32(0), U32(0)>> /\ pad' = <<U32(0), U32(0)>>
    /\ coords' = <<>> /\ matches' = <<>> /\ painted' = 0
    /\ pattern' = "none" /\ err_path' = 0 /\ tile_img' = <<0, 0>>
    /\ result' = "none"
    /\ UNCHANGED cmdVars
    /\ UNCHANGED <<libVars, fs, loads, query, overflow_checks>>

\* ------------------------------------- SpecMosaic: runs of generate_mosaic
InitMosaic ==
    /\ pc = "ready"
    /\ tile_size \in 1..MaxCell
    /\ \E n \in 1..MaxMosaicTiles :
          /\ tiles = FixtureTiles(n, 1, tile_size)
          /\ loads = NoLoads(n)
    /\ src_dir = "/tmp/tiles"
    /\ sigma_divisor \in {F64(4), F64(0)}
    /\ mask = GaussianMask(tile_size, sigma_divisor)
    /\ IdleCmd /\ IdleFind /\ IdleGen /\ IdleFs
    /\ result = "none"

NextMosaic ==
    \/ LoadTarget
    \/ ComputePad
    \/ EnumerateCoords
    \/ SelectCell
    \/ CompositeCell
    \/ Encode
    \/ Return

SpecMosaic == InitMosaic /\ [][NextMosaic]_vars

\* the number of scored cells for which tile t was chosen
TimesChosen(t) == Cardinality({j \in 1..Len(matches) : matches[j] = t})

RECURSIVE SumTo(_, _)
SumTo(f, n) == IF n = 0 THEN 0 ELSE f[n] + SumTo(f, n - 1)

\* C3: the selection pass scores the cells one at a time in the order of
\* coords, from all-zero usage counts; when a cell is scored usage_counts[t]
\* is the number of earlier cells for which t was chosen, so the counts sum
\* to the number of cells scored, and a selection adds exactly 1 to the
\* chosen tile's count.
C3_UsageCountsTrackSelections ==
    /\ [](pc \in {"select", "composite", "encode"} =>
            /\ DOMAIN usage_counts = 1..Len(tiles)
            /\ \A t \in 1..Len(tiles) : usage_counts[t] = TimesChosen(t)
            /\ SumTo(usage_counts, Len(tiles)) = Len(matches)
            /\ Len(matches) <= Len(coords)
            /\ (pc = "select" => Len(matches) < Len(coords))
            /\ (pc # "select" => Len(matches) = Len(coords)))
    /\ [][(pc = "select" /\ pc' # "panic") =>
            /\ matches' = Append(matches, best_idx')
            /\ target_color' = RegionColor(pattern, coords[Len(matches')][1],
                                           coords[Len(matches')][2], tile_size)
            /\ \A t \in 1..Len(tiles) :
                  usage_counts'[t] = usage_counts[t] + (IF t = best_idx' THEN 1 ELSE 0)]_vars

\* two cells were scored, both tiles were chosen, and a further cell is to
\* be scored
C3_Witness ==
    /\ pc = "select"
    /\ Len(tiles) = 2
    /\ Len(matches) >= 3
    /\ usage_counts[1] >= 2 /\ usage_counts[2] >= 1

\* C7: a tile's file is loaded successfully at most once; a populated cache
\* slot is never cleared or replaced, and a call that finds it populated
\* returns that image without loading; a call whose load fails returns an
\* Image error and leaves the slot empty.
C7_CachePopulatedOnce ==
    /\ [](/\ \A t \in 1..Len(tiles) :
                /\ loads[t].ok <= 1
                /\ tiles[t].image_cache = loads[t].ok
          /\ tile_img[1] # 0 =>
                (tile_img[2] # 0 /\ tile_img[2] = tiles[tile_img[1]].image_cache))
    /\ [][/\ \A t \in 1..Len(tiles) :
                tiles[t].image_cache # 0 =>
                    (tiles'[t].image_cache = tiles[t].image_cache /\ loads'[t] = loads[t])
          /\ (pc = "composite" /\ pc' = "returned") =>
                /\ result' = "Image:tile"
                /\ tiles' = tiles
                /\ tiles[matches[painted + 1]].image_cache = 0
                /\ loads'[matches[painted + 1]].failed]_vars

\* a tile whose load failed in an earlier call was loaded once and then
\* served from its cache slot for a second cell
C7_Witness ==
    /\ pc \in {"composite", "encode"}
    /\ painted >= 2
    /\ matches[1] = matches[2]
    /\ loads[matches[1]].failed
    /\ loads[matches[1]].ok = 1
    /\ tiles[matches[1]].image_cache = 1
    /\ tile_img = <<matches[1], 1>>

\* C8: generate_mosaic returns the data URI only with every cell's tile
\* loaded and painted; otherwise it returns an Image error and no mosaic:
\* for the target, for the encoding, or for the first cell whose tile fails
\* to load, with that tile's path, no later cell being painted.
C8_NoPartialSuccess ==
    pc = "returned" =>
        \/ /\ result = "Ok"
           /\ Len(matches) = Len(coords)
           /\ painted = Len(coords)
           /\ \A j \in 1..Len(matches) : tiles[matches[j]].image_cache # 0
           /\ err_path = 0
        \/ /\ result = "Image:target"
           /\ painted = 0 /\ coords = <<>>
        \/ /\ result = "Image:tile"
           /\ painted < Len(coords)
           /\ err_path = tiles[matches[painted + 1]].path
           /\ tiles[matches[painted + 1]].image_cache = 0
        \/ /\ result = "Image:encode"
           /\ painted = Len(coords)

\* a call returned the Image error of a tile after painting some cells
C8_Witness ==
    /\ pc = "returned"
    /\ result = "Image:tile"
    /\ painted >= 1
    /\ err_path = 2

\* C10: the cells are in row-major order, do not overlap, number
\* (pad_w / tile_size) * (pad_h / tile_size) and lie inside the padded image;
\* each region has tile_size^2 pixels, as many as the mask has weights, and
\* no lookup of a weight is out of bounds.
C10_CellsInsidePaddedImage ==
    /\ pc # "panic"
    /\ Len(mask) = tile_size * tile_size
    /\ pc \in {"select", "composite", "encode"} =>
          LET pad_w == ToInt(pad[1])
              pad_h == ToInt(pad[2])
          IN  /\ Len(coords) = (pad_w \div tile_size) * (pad_h \div tile_size)
              /\ \A i \in 1..Len(coords) :
                    /\ coords[i][1] >= 0 /\ coords[i][2] >= 0
                    /\ coords[i][1] + tile_size <= pad_w
                    /\ coords[i][2] + tile_size <= pad_h
              /\ \A i \in 1..Len(coords) : \A j \in 1..Len(coords) :
                    i < j =>
                       /\ \/ coords[i][2] < coords[j][2]
                          \/ (coords[i][2] = coords[j][2] /\ coords[i][1] < coords[j][1])
                       /\ \/ coords[i][1] + tile_size <= coords[j][1]
                          \/ coords[j][1] + tile_size <= coords[i][1]
                          \/ coords[i][2] + tile_size <= coords[j][2]
                          \/ coords[j][2] + tile_size <= coords[i][2]

\* a 3 x 3 target was padded to 4 x 4 for tiles of size 2 and all four
\* cells were scored
C10_Witness ==
    /\ pc = "composite"
    /\ tile_size = 2
    /\ orig = <<U32(3), U32(3)>>
    /\ pad = <<U32(4), U32(4)>>
    /\ coords = <<<<0, 0>>, <<2, 0>>, <<0, 2>>, <<2, 2>>>>
    /\ Len(matches) = 4

\* ------------------------------------------- main.rs: the command's tile cache
\* The tile_directory arguments of the invocations: a directory with tile
\* images and one without.
CmdDirs == {"tiles", "empty"}

\* CacheKey (main.rs:10-14), compared field by field by the derived PartialEq
CacheKey(dir, size) == [tile_directory |-> dir, asset_size |-> size]

\* The keys of the invocations: either directory, at the smallest or the
\* largest asset_size
CacheKeys == {CacheKey(d, s) : d \in CmdDirs, s \in {1, MaxAssetSize}}

\* What spawn_blocking(load_library(&dir, size)) hands back (main.rs:51-57):
\* the tiles of the directory, resized to asset_size; none for a directory
\* without tile images.
LoadedTiles(key) ==
    IF key.tile_directory = "empty" THEN <<>>
    ELSE <<[path |-> <<key.tile_directory, "t.png">>, size |-> key.asset_size]>>

\* An invocation that is not running
IdleReq == [pc |-> "idle", cache_key |-> <<>>, needs_reload |-> FALSE,
            new_tiles |-> <<>>, tiles |-> <<>>, result |-> "none"]

Requests == 1..MaxRequests

\* The frontend invokes the command (main.rs:33-37); the async runtime runs
\* the invocations concurrently, each on its own task.
Invoke(r, key) ==
    /\ pc = "serve"
    /\ reqs[r].pc = "idle"
    /\ reqs' = [reqs EXCEPT ![r] = [IdleReq EXCEPT !.pc = "check",
                                                   !.cache_key = <<key>>]]
    /\ UNCHANGED <<pc, state_tiles, cache_params>>
    /\ UNCHANGED <<libVars, findVars, genVars, result, fs, loads, query,
                   overflow_checks>>

\* main.rs:40-46: needs_reload, under the read lock of cache_params
CheckCache(r) ==
    /\ pc = "serve"
    /\ reqs[r].pc = "check"
    /\ LET reload == cache_params = <<>> \/ cache_params[1] # reqs[r].cache_key[1]
       IN  reqs' = [reqs EXCEPT ![r].needs_reload = reload,
                                ![r].pc = IF reload THEN "load" ELSE "cached"]
    /\ UNCHANGED <<pc, state_tiles, cache_params>>
    /\ UNCHANGED <<libVars, findVars, genVars, result, fs, loads, query,
                   overflow_checks>>

\* main.rs:51-61: the blocking load; a panic of the load is a JoinError and
\* an empty result an error, both returned before anything is written.
LoadTiles(r) ==
    /\ pc = "serve"
    /\ reqs[r].pc = "load"
    /\ \E joined \in BOOLEAN :
          LET new == LoadedTiles(reqs[r].cache_key[1])
          IN  IF ~joined
              THEN reqs' = [reqs EXCEPT ![r].pc = "done",
                                        ![r].result = "Err: Failed to load tiles"]
              ELSE IF Len(new) = 0
              THEN reqs' = [reqs EXCEPT ![r].pc = "done",
                                        ![r].result = "Err: No valid tile images"]
              ELSE reqs' = [reqs EXCEPT ![r].pc = "write_tiles",
                                        ![r].new_tiles = new]
    /\ UNCHANGED <<pc, state_tiles, cache_params>>
    /\ UNCHANGED <<libVars, findVars, genVars, result, fs, loads, query,
                   overflow_checks>>

\* main.rs:63: *state.tiles.write().await = new_tiles.clone()
WriteTiles(r) ==
    /\ pc = "serve"
    /\ reqs[r].pc = "write_tiles"
    /\ state_tiles' = reqs[r].new_tiles
    /\ reqs' = [reqs EXCEPT ![r].pc = "write_params"]
    /\ UNCHANGED <<pc, cache_params>>
    /\ UNCHANGED <<libVars, findVars, genVars, result, fs, loads, query,
                   overflow_checks>>

\* main.rs:64-65: *state.cache_params.write().await = Some(cache_key), under
\* a second lock taken after the first was released
WriteParams(r) ==
    /\ pc = "serve"
    /\ reqs[r].pc = "write_params"
    /\ cache_params' = reqs[r].cache_key
    /\ reqs' = [reqs EXCEPT ![r].pc = "compute", ![r].tiles = reqs[r].new_tiles]
    /\ UNCHANGED <<pc, state_tiles>>
    /\ UNCHANGED <<libVars, findVars, genVars, result, fs, loads, query,
                   overflow_checks>>

\* main.rs:66-69: the "Using cached tiles" branch
ReadCached(r) ==
    /\ pc = "serve"
    /\ reqs[r].pc = "cached"
    /\ reqs' = [reqs EXCEPT ![r].pc = "compute", ![r].tiles = state_tiles]
    /\ UNCHANGED <<pc, state_tiles, cache_params>>
    /\ UNCHANGED <<libVars, findVars, genVars, result, fs, loads, query,
                   overflow_checks>>

\* main.rs:72-127: the blocking computation over the tiles in hand; it fails
\* when the target does not open or the output is not saved.
Compute(r) ==
    /\ pc = "serve"
    /\ reqs[r].pc = "compute"
    /\ \E out \in {"Ok", "Err: Failed to open target image",
                    "Err: Failed to save mosaic"} :
          reqs' = [reqs EXCEPT ![r].pc = "done", ![r].result = out]
    /\ UNCHANGED <<pc, state_tiles, cache_params>>
    /\ UNCHANGED <<libVars, findVars, genVars, result, fs, loads, query,
                   overflow_checks>>

\* The invocation's future completes and its locals are dropped
Complete(r) ==
    /\ pc = "serve"
    /\ reqs[r].pc = "done"
    /\ reqs' = [reqs EXCEPT ![r] = IdleReq]
    /\ UNCHANGED <<pc, state_tiles, cache_params>>
    /\ UNCHANGED <<libVars, findVars, genVars, result, fs, loads, query,
                   overflow_checks>>

\* AppState::default() (main.rs:16-20, 136): no tiles, no key
InitCache ==
    /\ pc = "serve"
    /\ state_tiles = <<>>
    /\ cache_params = <<>>
    /\ reqs = [r \in Requests |-> IdleReq]
    /\ tiles = <<>> /\ src_dir = <<>> /\ tile_size = 1
    /\ sigma_divisor = F64(0) /\ mask = <<>>
    /\ result = "none" /\ loads = <<>>
    /\ IdleFind /\ IdleGen /\ IdleFs

NextCache ==
    \E r \in Requests :
        \/ \E key \in CacheKeys : Invoke(r, key)
        \/ CheckCache(r)
        \/ LoadTiles(r)
        \/ WriteTiles(r)
        \/ WriteParams(r)
        \/ ReadCached(r)
        \/ Compute(r)
        \/ Complete(r)

SpecCache == InitCache /\ [][NextCache]_vars

\* The invocation r found cache_params equal to its own key, took the
\* "Using cached tiles" branch and holds the tiles it read from state.tiles
TookCachedBranch(r) ==
    /\ reqs[r].pc = "compute"
    /\ ~reqs[r].needs_reload

\* The invocation r returns the error of a reload that yielded zero tiles
ReturnsNoTiles(r) ==
    /\ reqs[r].pc = "load"
    /\ reqs'[r].result = "Err: No valid tile images"

\* C11, as claimed: under any interleaving of concurrent invocations of the
\* command, an invocation that finds cache_params equal to its own key and
\* takes the cached branch reads from state.tiles the tiles that were loaded
\* for that key; and a reload that yields zero tiles returns an error and
\* leaves state.tiles and cache_params unchanged.
C11_AsClaimed ==
    /\ [](\A r \in DOMAIN reqs :
            TookCachedBranch(r) => reqs[r].tiles = LoadedTiles(reqs[r].cache_key[1]))
    /\ [][\A r \in DOMAIN reqs :
            ReturnsNoTiles(r) => /\ state_tiles' = state_tiles
                                /\ cache_params' = cache_params]_vars

====
